---- MODULE Spec2Model ----
(***************************************************************************)
(* tortoise-filters: field filter descriptors (filter_fields.py) and the   *)
(* filter-set orchestrator (filterset.py).                                 *)
(*                                                                         *)
(* A filter-set class is its __dict__: a sequence of attributes in         *)
(* declaration order.  The field filters among them are objects shared by  *)
(* every instance of the class; FilterSet.filter_queryset writes each      *)
(* request's value into them, and InFilter rewrites its own lookup_expr.   *)
(* A queryset is the sequence of keyword predicates filter() was called    *)
(* with; running the query is the ORM's business and is taken to complete. *)
(***************************************************************************)
EXTENDS Naturals, Sequences, FiniteSets, Bags, TLC

VARIABLES
    declared,    \* the class __dict__ as written (never changes)
    attributes,  \* the class __dict__ now: the shared descriptors' fields
    call,        \* the last call that ended, and how
    inflight     \* bag of filter_queryset() calls suspended at an await

vars == <<declared, attributes, call, inflight>>

----------------------------------------------------------------------------
(* Python values *)

None == "None"

PyNone   == [type |-> "NoneType", repr |-> "None"]
Int5     == [type |-> "int", repr |-> "5"]
Str7     == [type |-> "str", repr |-> "7"]
StrAbc   == [type |-> "str", repr |-> "abc"]
List12   == [type |-> "list", repr |-> "[1, 2]"]
DateTime == [type |-> "datetime", repr |-> "2024-01-02T03:04:05"]
Date     == [type |-> "date", repr |-> "2024-01-02"]

Values == {PyNone, Int5, Str7, StrAbc, List12, DateTime, Date}

IntLiterals == {"5", "7"}

\* int(x): the exception it raises, or "ok"; the integer itself is discarded
\* by both callers.
int(x) ==
    CASE x.type = "int" -> "ok"
      [] x.type = "str" -> IF x.repr \in IntLiterals THEN "ok" ELSE "ValueError"
      [] OTHER -> "TypeError"

\* isinstance(x, cls) for the classes the filters test; datetime.datetime is
\* a subclass of datetime.date.
isinstance(x, cls) ==
    CASE cls = "list" -> x.type = "list"
      [] cls = "datetime" -> x.type = "datetime"
      [] cls = "date" -> x.type \in {"date", "datetime"}
      [] OTHER -> FALSE

----------------------------------------------------------------------------
(* filter_fields.py *)

FilterTypes == {"NumberFilter", "CharFilter", "InFilter", "DateTimeFilter",
                "DateFilter", "NumberRangeFilter"}

DateExpr == {"exact", "iexact", "contains", "icontains", "gt", "gte", "lt",
             "lte", "range", "isnull", "year", "month", "day", "week_day",
             "hour", "minute", "second", None}

available_expr(type) ==
    CASE type = "NumberFilter" -> {"gt", "gte", "lt", "lte", None}
      [] type = "CharFilter" -> {"iexact", "exact", "contains", "icontains",
                                 "startswith", "istartswith", "endswith",
                                 "iendswith", None}
      [] type = "InFilter" -> {None}
      [] type = "DateTimeFilter" -> DateExpr
      [] type = "DateFilter" -> DateExpr
      [] type = "NumberRangeFilter" -> {"gte", "gt", None}

NoError == "no error"
InvalidLookup == "Exception: Invalid lookup expression"
InvalidType == "TypeError: Invalid type"
IntValueError == "ValueError: invalid literal for int()"

\* BaseFieldFilter._check_lookup_exr
_check_lookup_exr(type, lookup_expr) ==
    IF lookup_expr \notin available_expr(type) THEN InvalidLookup ELSE NoError

\* What int() raises and the except clause lets through or rewraps.
IntCoercion(x) ==
    CASE int(x) = "TypeError" -> InvalidType
      [] int(x) = "ValueError" -> IntValueError
      [] OTHER -> NoError

\* <Filter>.to_internal_value, on self.value
to_internal_value(type, value) ==
    CASE type \in {"NumberFilter", "NumberRangeFilter"} -> IntCoercion(value)
      [] type = "CharFilter" -> NoError
      [] type = "InFilter" ->
            IF ~isinstance(value, "list") THEN InvalidType ELSE NoError
      [] type = "DateTimeFilter" ->
            IF ~isinstance(value, "datetime") THEN InvalidType ELSE NoError
      [] type = "DateFilter" ->
            IF ~isinstance(value, "date") THEN InvalidType ELSE NoError

\* (a builder that forgets the None case)
_kwargs_builder_always(field_name, lookup_expr, value) ==
    [key |-> field_name \o "__" \o lookup_expr, value |-> value]

\* <Filter>._kwargs_builder: the one keyword pair handed to queryset.filter
_kwargs_builder(field_name, lookup_expr, value) ==
    IF lookup_expr # None
    THEN [key |-> field_name \o "__" \o lookup_expr, value |-> value]
    ELSE [key |-> field_name, value |-> value]

\* (a filter that forgets the None test)
ValueIsNone_never(self) == FALSE

\* "if self.value is None: return queryset"
ValueIsNone(self) == self.value = PyNone

\* InFilter overwrites its lookup_expr; the other filters check theirs.
LookupInUse(self) ==
    IF self.type = "InFilter" THEN "in" ELSE self.lookup_expr

\* (an InFilter that checks its lookup as the other filters do)
LookupCheck_all(self) == _check_lookup_exr(self.type, self.lookup_expr)

LookupCheck(self) ==
    IF self.type = "InFilter" THEN NoError
    ELSE _check_lookup_exr(self.type, self.lookup_expr)

\* Only NumberRangeFilter runs the query ("a = await queryset").
AwaitsQuery(type) == type = "NumberRangeFilter"

\* queryset.filter(**kwargs): the predicate, with the attribute that built it
filter(queryset, by, kwargs) ==
    Append(queryset, [by |-> by, key |-> kwargs.key, value |-> kwargs.value])

\* <Filter>.filter_queryset(queryset, value) up to its return or its await.
\* self is the descriptor (an entry of the class __dict__).
field_filter_queryset(self, queryset, value) ==
    IF ValueIsNone(self)
    THEN [self |-> self, queryset |-> queryset, error |-> NoError,
          awaiting |-> FALSE]
    ELSE
      LET self1 == [self EXCEPT !.lookup_expr = LookupInUse(self)]
          e1 == LookupCheck(self)
          e2 == to_internal_value(self1.type, self1.value)
          kwargs == _kwargs_builder(self1.field_name, self1.lookup_expr, value)
      IN  IF e1 # NoError
          THEN [self |-> self1, queryset |-> queryset, error |-> e1,
                awaiting |-> FALSE]
          ELSE IF e2 # NoError
          THEN [self |-> self1, queryset |-> queryset, error |-> e2,
                awaiting |-> FALSE]
          ELSE [self |-> self1,
                queryset |-> filter(queryset, self1.attr, kwargs),
                error |-> NoError, awaiting |-> AwaitsQuery(self1.type)]

\* (a filter that builds its predicate from self.value after the await)
range_resume_rereads(self, queryset) ==
    [queryset EXCEPT ![Len(queryset)].value = self.value]

\* NumberRangeFilter.filter_queryset after "a = await queryset": the local
\* queryset is returned; the descriptor is not read again.
range_resume(self, queryset) == queryset

----------------------------------------------------------------------------
(* filterset.py *)

ModelFields == {"id", "age", "name"}

\* isinstance(value, BaseFieldFilter)
isFieldFilter(entry) == entry.type \in FilterTypes

\* query_params is a dict: a sequence of (key, value) items, keys distinct.
Keys(query_params) == {query_params[j].key : j \in DOMAIN query_params}

Get(query_params, key) ==
    LET j == CHOOSE j \in DOMAIN query_params : query_params[j].key = key
    IN  query_params[j].value

\* BaseFilterSet.get_queryset: model.all()
get_queryset == <<>>

\* (a check of the attribute's name)
CheckedName_key(entry) == entry.attr

\* The name check_fields_appearance looks up on the model.
CheckedName(entry) == entry.field_name

\* BaseFilterSet.check_fields_appearance: the first declared filter, from
\* entry i on, whose field_name is no model field raises.
RECURSIVE check_fields_appearance(_, _)
check_fields_appearance(attr, i) ==
    IF i > Len(attr) THEN NoError
    ELSE IF isFieldFilter(attr[i]) /\ CheckedName(attr[i]) \notin ModelFields
         THEN "Exception: this field does not belong to model"
         ELSE check_fields_appearance(attr, i + 1)

\* The add_fields loop of to_dependencies: one optional schema field per
\* declared filter, named by its attribute.
RECURSIVE add_fields(_, _, _)
add_fields(attr, i, schema) ==
    IF i > Len(attr) THEN schema
    ELSE add_fields(attr, i + 1,
                    IF isFieldFilter(attr[i])
                    THEN Append(schema, attr[i].attr) ELSE schema)

\* (a loop over the request's keys first)
LoopOrder_request(attr, query_params) ==
    LET Named(n) == attr[n].attr \in Keys(query_params)
        Entry(j) == CHOOSE n \in DOMAIN attr :
                        attr[n].attr = query_params[j].key
        named == [j \in 1..Len(query_params) |-> query_params[j].key]
        Known(k) == \E n \in DOMAIN attr : attr[n].attr = k
        known == SelectSeq(named, Known)
        Unnamed(n) == ~Named(n)
    IN  [j \in 1..Len(known) |->
            CHOOSE n \in DOMAIN attr : attr[n].attr = known[j]]
        \o SelectSeq([n \in 1..Len(attr) |-> n], Unnamed)

\* "for key, value in attributes.items()" walks the class __dict__ in
\* declaration order, whatever the request holds: the n-th entry visited.
LoopOrder(attr, query_params) == [n \in 1..Len(attr) |-> n]

\* (a lookup by the filter's field_name)
ParamKey_field(entry) == entry.field_name

\* "if key in list(self.query_params.keys())": key is the attribute's name.
ParamKey(entry) == entry.attr

\* The loop of FilterSet.filter_queryset from its n-th step on, until it
\* returns, raises, or a filter suspends at its await.
RECURSIVE filter_loop(_, _, _, _)
filter_loop(attr, query_params, n, queryset) ==
    IF n > Len(attr)
    THEN [attributes |-> attr, status |-> "returned", error |-> NoError,
          at |-> 0, queryset |-> queryset]
    ELSE
      LET i == LoopOrder(attr, query_params)[n]
      IN  IF isFieldFilter(attr[i]) /\ ParamKey(attr[i]) \in Keys(query_params)
          THEN LET self == [attr[i] EXCEPT
                              !.value = Get(query_params, ParamKey(attr[i]))]
                   r == field_filter_queryset(self, queryset, self.value)
                   attr1 == [attr EXCEPT ![i] = r.self]
               IN  IF r.error # NoError
                   THEN [attributes |-> attr1, status |-> "raised",
                         error |-> r.error, at |-> n, queryset |-> r.queryset]
                   ELSE IF r.awaiting
                   THEN [attributes |-> attr1, status |-> "awaiting",
                         error |-> NoError, at |-> n, queryset |-> r.queryset]
                   ELSE filter_loop(attr1, query_params, n + 1, r.queryset)
          ELSE filter_loop(attr, query_params, n + 1, queryset)

\* A suspended call continues: the await yields, the filter returns its
\* queryset, the loop goes on with the next entry.
resume_loop(attr, frame) ==
    filter_loop(attr, frame.query_params, frame.at + 1,
                range_resume(attr[LoopOrder(attr, frame.query_params)[frame.at]],
                             frame.queryset))

\* A call with no other call running in between: every await completes
\* before anything else touches the descriptors.
RECURSIVE run_to_end(_, _)
run_to_end(query_params, r) ==
    IF r.status = "awaiting"
    THEN run_to_end(query_params,
                    resume_loop(r.attributes,
                                [query_params |-> query_params, at |-> r.at,
                                 queryset |-> r.queryset]))
    ELSE r

filter_queryset(attr, query_params) ==
    run_to_end(query_params, filter_loop(attr, query_params, 1, get_queryset))

----------------------------------------------------------------------------
(* The classes and requests explored *)

AttrNames == <<"min_age", "name">>
FieldNames == {"age", "ghost"}
ExtraKeys == {"age"}

\* every lookup some filter allows, and two that none does
LookupExprs == UNION {available_expr(t) : t \in FilterTypes} \cup {"in", "regex"}

\* the "model = ..." attribute of the class: no field filter
ModelAttr ==
    [attr |-> "model", type |-> "Model", field_name |-> "",
     lookup_expr |-> None, value |-> PyNone]

\* <Filter>.__init__(field_name, lookup_expr): value is None
Descriptor(attr, type, field_name, lookup_expr) ==
    [attr |-> attr, type |-> type, field_name |-> field_name,
     lookup_expr |-> lookup_expr, value |-> PyNone]

\* classes of one filter: any type, field and lookup
Singles ==
    {<<ModelAttr, Descriptor(AttrNames[1], t, f, l)>> :
        t \in FilterTypes, f \in FieldNames, l \in LookupExprs}

\* classes of two filters: any type on either field, with no lookup or one
\* that some types allow, then a filter that takes any value or one on a
\* field the model lacks
Seconds ==
    {Descriptor(AttrNames[2], "CharFilter", "name", "contains"),
     Descriptor(AttrNames[2], "InFilter", "ghost", "gte")}

Pairs ==
    {<<ModelAttr, Descriptor(AttrNames[1], t, f, l), b>> :
        t \in FilterTypes, f \in FieldNames, l \in {None, "gte"},
        b \in Seconds}

Classes == {<<ModelAttr>>} \cup Singles \cup Pairs

\* classes whose calls can suspend: a NumberRangeFilter beside another filter
AsyncClasses ==
    {<<ModelAttr, Descriptor(AttrNames[1], "NumberRangeFilter", "age", "gte"),
       Descriptor(AttrNames[2], t, "name", None)>> :
        t \in {"CharFilter", "NumberFilter", "InFilter"}}
    \cup
    {<<ModelAttr, Descriptor(AttrNames[1], t, "name", None),
       Descriptor(AttrNames[2], "NumberRangeFilter", "age", None)>> :
        t \in {"CharFilter", "InFilter"}}

Items(key, values) == {[key |-> key, value |-> v] : v \in values}

DeclaredKeys(attr) ==
    {attr[i].attr : i \in {j \in DOMAIN attr : isFieldFilter(attr[j])}}

\* dicts over the declared attribute names, in either key order
DeclaredParams(attr, values) ==
    LET K == DeclaredKeys(attr)
    IN  {<<>>}
        \cup UNION {{<<x>> : x \in Items(k, values)} : k \in K}
        \cup UNION {{<<x, y>> : x \in Items(k[1], values),
                                y \in Items(k[2], values)} :
                    k \in {p \in K \X K : p[1] # p[2]}}

\* requests to a class of two filters carry these
PairValues == {PyNone, Int5, StrAbc, List12}

RequestValues(attr) ==
    IF Cardinality(DeclaredKeys(attr)) > 1 THEN PairValues ELSE Values

\* ... optionally followed by one key that names no declared filter
QueryParams(attr) ==
    DeclaredParams(attr, RequestValues(attr))
    \cup {Append(q, [key |-> k, value |-> Int5]) :
          q \in DeclaredParams(attr, RequestValues(attr)), k \in ExtraKeys}

AsyncValues == {PyNone, Int5, Str7}

AsyncQueryParams(attr) == DeclaredParams(attr, AsyncValues)

MaxInFlight == 2

----------------------------------------------------------------------------
(* State machine *)

NoCall ==
    [op |-> "none", query_params |-> <<>>, status |-> "none",
     error |-> NoError, at |-> 0, queryset |-> <<>>, schema |-> <<>>]

Init ==
    /\ declared \in Classes
    /\ attributes = declared
    /\ call = NoCall
    /\ inflight = EmptyBag

\* BaseFilterSet.to_dependencies()
ToDependencies ==
    LET e == check_fields_appearance(attributes, 1)
    IN  /\ call' = [op |-> "to_dependencies", query_params |-> <<>>,
                    status |-> IF e # NoError THEN "raised" ELSE "returned",
                    error |-> e, at |-> 0, queryset |-> <<>>,
                    schema |-> IF e # NoError THEN <<>>
                               ELSE add_fields(attributes, 1, <<>>)]
        /\ UNCHANGED <<declared, attributes, inflight>>

Ended(query_params, r) ==
    [op |-> "filter_queryset", query_params |-> query_params,
     status |-> r.status, error |-> r.error, at |-> r.at,
     queryset |-> r.queryset, schema |-> <<>>]

Frame(query_params, r) ==
    [query_params |-> query_params, at |-> r.at, queryset |-> r.queryset]

\* FilterSet(query_params).filter_queryset(), awaited to its end
FilterQueryset ==
    \E query_params \in QueryParams(attributes) :
        LET r == filter_queryset(attributes, query_params)
        IN  /\ attributes' = r.attributes
            /\ call' = Ended(query_params, r)
            /\ UNCHANGED <<declared, inflight>>

Next == ToDependencies \/ FilterQueryset

Spec == Init /\ [][Next]_vars

(* Calls of several FilterSet instances on one event loop: a call runs     *)
(* until it ends or suspends at NumberRangeFilter's await, and any         *)
(* suspended call may be the next to continue.  Awaiting get_queryset or a *)
(* filter's filter_queryset does not by itself give up the loop: those     *)
(* coroutines run on in the caller until something in them waits, and only *)
(* "await queryset" (the query) does.                                      *)

InitAsync ==
    /\ declared \in AsyncClasses
    /\ attributes = declared
    /\ call = NoCall
    /\ inflight = EmptyBag

\* What a step of a call leaves behind: a suspended frame, or its end.
Settle(query_params, r, others) ==
    /\ attributes' = r.attributes
    /\ IF r.status = "awaiting"
       THEN /\ BagCardinality(others) < MaxInFlight
            /\ inflight' = others (+) SetToBag({Frame(query_params, r)})
            /\ call' = call
       ELSE /\ inflight' = others
            /\ call' = Ended(query_params, r)
    /\ UNCHANGED declared

\* filter_queryset() is called and runs to its first await or its end
Start ==
    \E query_params \in AsyncQueryParams(attributes) :
        Settle(query_params,
               filter_loop(attributes, query_params, 1, get_queryset),
               inflight)

\* a suspended call is scheduled again
Resume ==
    \E frame \in BagToSet(inflight) :
        Settle(frame.query_params, resume_loop(attributes, frame),
               inflight (-) SetToBag({frame}))

NextAsync == Start \/ Resume

SpecAsync == InitAsync /\ [][NextAsync]_vars

----------------------------------------------------------------------------
(* Properties *)

TheCall == call.op = "filter_queryset"
Returned == call.status = "returned"
Filters == {i \in DOMAIN declared : isFieldFilter(declared[i])}

\* the request names filter i; the value it gives; it gives one
Asked(i) == declared[i].attr \in Keys(call.query_params)
Own(i) == Get(call.query_params, declared[i].attr)
Given(i) == Asked(i) /\ Own(i) # PyNone

\* the loop got to entry i; it raised there; the predicates entry i built
Reached(i) == Returned \/ call.at >= i
RaisedAt(i) == call.status = "raised" /\ call.at = i
BuiltBy(i) ==
    {k \in DOMAIN call.queryset : call.queryset[k].by = declared[i].attr}

LookupAllowed(i) == declared[i].lookup_expr \in available_expr(declared[i].type)

\* C1: a filter whose request value is None leaves the queryset as it was
\* and raises nothing, whatever its declared lookup.
C1_AbsentValueIsNoOp ==
    TheCall =>
        \A i \in Filters :
            (Asked(i) /\ Own(i) = PyNone) => (BuiltBy(i) = {} /\ ~RaisedAt(i))

C1_Witness ==
    /\ TheCall /\ Returned
    /\ \E i \in Filters :
        /\ Asked(i) /\ Own(i) = PyNone
        /\ declared[i].type # "InFilter"
        /\ ~LookupAllowed(i)

AllOnModel == \A i \in Filters : declared[i].field_name \in ModelFields

\* C2: to_dependencies raises, and returns no schema, exactly when some
\* declared filter's field_name is no field of the model; otherwise it
\* returns the schema, one field per declared filter.
C2_ToDependenciesChecksFields ==
    call.op = "to_dependencies" =>
        /\ ~AllOnModel => (call.status = "raised" /\ call.schema = <<>>)
        /\ AllOnModel =>
            /\ Returned /\ call.error = NoError
            /\ {call.schema[k] : k \in DOMAIN call.schema}
                = {declared[i].attr : i \in Filters}

C2_Witness ==
    /\ call.op = "to_dependencies" /\ call.status = "raised"
    /\ Cardinality(Filters) = 2
    /\ \E i \in Filters : declared[i].field_name \in ModelFields
    /\ \E i \in Filters : declared[i].attr \in ModelFields
                          /\ declared[i].field_name \notin ModelFields

ModelKeys ==
    ModelFields
    \cup {f \o "__" \o l : f \in ModelFields, l \in LookupExprs \ {None}}

\* C3: every predicate added to a queryset names a field of the model.
C3_PredicatesNameModelFields ==
    \A k \in DOMAIN call.queryset : call.queryset[k].key \in ModelKeys

\* C4: of two filters the request gives values to, the one declared first
\* adds its predicate first, and each adds exactly one, whatever the order
\* of the request's keys.
C4_DeclarationOrder ==
    (TheCall /\ Returned) =>
        \A i \in Filters, j \in Filters :
            (i < j /\ Given(i) /\ Given(j)) =>
                /\ Cardinality(BuiltBy(i)) = 1
                /\ Cardinality(BuiltBy(j)) = 1
                /\ \A k \in BuiltBy(i), l \in BuiltBy(j) : k < l

C4_Witness ==
    /\ TheCall /\ Returned
    /\ Len(call.queryset) = 2
    /\ Len(call.query_params) >= 2
    /\ call.query_params[1].key = AttrNames[2]
    /\ call.query_params[2].key = AttrNames[1]

\* C5: a filter given a value while its declared lookup is outside its
\* type's available_expr raises 'Invalid lookup expression' and adds no
\* predicate.
C5_InvalidLookupRaises ==
    TheCall =>
        \A i \in Filters :
            (Given(i) /\ Reached(i) /\ ~LookupAllowed(i)) =>
                /\ RaisedAt(i) /\ call.error = InvalidLookup
                /\ BuiltBy(i) = {}

\* C6: the returned queryset holds one predicate for each declared filter
\* whose attribute name the request gives a value, and nothing else; any
\* other key adds nothing and raises nothing.
C6_OnlyMatchingParams ==
    TheCall =>
        /\ Returned =>
            /\ Len(call.queryset) = Cardinality({i \in Filters : Given(i)})
            /\ \A i \in Filters :
                Cardinality(BuiltBy(i)) = IF Given(i) THEN 1 ELSE 0
            /\ \A k \in DOMAIN call.queryset :
                \E i \in Filters : k \in BuiltBy(i)
        /\ call.status = "raised" => (call.at \in Filters /\ Given(call.at))

C6_Witness ==
    /\ TheCall /\ Returned
    /\ Len(call.queryset) = 1
    /\ \E i \in Filters :
        /\ declared[i].field_name \in Keys(call.query_params)
        /\ ~Asked(i)

ExpectedKey(entry) ==
    IF entry.type = "InFilter" THEN entry.field_name \o "__in"
    ELSE IF entry.lookup_expr = None THEN entry.field_name
    ELSE entry.field_name \o "__" \o entry.lookup_expr

\* C7: a predicate is (field_name + '__' + declared lookup, value), the
\* field_name alone when the lookup is None, always '__in' for InFilter,
\* and the value is the request's, unchanged.
C7_KeywordPredicate ==
    TheCall =>
        \A k \in DOMAIN call.queryset :
            \E i \in Filters :
                /\ k \in BuiltBy(i)
                /\ call.queryset[k].key = ExpectedKey(declared[i])
                /\ call.queryset[k].value = Own(i)

C7_Witness ==
    /\ TheCall /\ Returned
    /\ \E k \in DOMAIN call.queryset :
        call.queryset[k].key = "age__gte" /\ call.queryset[k].value = Str7
    /\ \E i \in Filters : declared[i].type = "NumberFilter" /\ Given(i)

\* the validation rule of each filter type, as C8 words it
FailsRule(type, value) ==
    CASE type \in {"NumberFilter", "NumberRangeFilter"} -> int(value) # "ok"
      [] type = "InFilter" -> value.type # "list"
      [] type = "DateTimeFilter" -> value.type # "datetime"
      [] type = "DateFilter" -> value.type \notin {"date", "datetime"}
      [] OTHER -> FALSE

\* C8: a filter given a value that fails its type's rule (its lookup being
\* one it accepts) raises TypeError('Invalid type') and adds no predicate.
C8_InvalidValueRaisesTypeError ==
    TheCall =>
        \A i \in Filters :
            (/\ Given(i) /\ Reached(i)
             /\ (declared[i].type = "InFilter" \/ LookupAllowed(i))
             /\ FailsRule(declared[i].type, Own(i))) =>
                /\ RaisedAt(i) /\ call.error = InvalidType
                /\ BuiltBy(i) = {}

OwnValues(query_params, queryset) ==
    \A k \in DOMAIN queryset :
        /\ queryset[k].by \in Keys(query_params)
        /\ queryset[k].value = Get(query_params, queryset[k].by)
        /\ queryset[k].value # PyNone

\* C9: however calls interleave at the await, a call's queryset holds the
\* predicates its own request determines, with its own values, and a call
\* that raises does so on a value of its own.
C9_Isolation ==
    /\ \A frame \in BagToSet(inflight) :
        OwnValues(frame.query_params, frame.queryset)
    /\ TheCall =>
        /\ OwnValues(call.query_params, call.queryset)
        /\ Returned =>
            \A i \in Filters :
                Cardinality(BuiltBy(i)) = IF Given(i) THEN 1 ELSE 0
        /\ call.status = "raised" =>
            /\ call.at \in Filters /\ Given(call.at)
            /\ call.error =
                IF declared[call.at].type # "InFilter"
                   /\ ~LookupAllowed(call.at)
                THEN InvalidLookup
                ELSE to_internal_value(declared[call.at].type, Own(call.at))

C9_Witness ==
    /\ TheCall /\ Returned
    /\ \E i \in Filters :
        /\ declared[i].type = "NumberRangeFilter"
        /\ BuiltBy(i) # {}
        /\ attributes[i].value # Own(i)
        /\ attributes[i].value # PyNone

\* C10: a call ends as it would on the class as declared, whatever calls
\* came before it.
C10_HistoryIndependence ==
    TheCall =>
        call = Ended(call.query_params,
                     filter_queryset(declared, call.query_params))

C10_Witness ==
    /\ TheCall /\ Returned
    /\ \E i \in Filters : ~Asked(i) /\ attributes[i].value # PyNone
    /\ \E i \in Filters : attributes[i].lookup_expr # declared[i].lookup_expr

====
